---- MODULE Spec2Model ----
(***************************************************************************)
(* SENT (SAE J2716) decoder of libfirmware: sent/include/sent_decoder.h.   *)
(* One sent_channel object is the record ch; Decoder is the only operation *)
(* that changes it.  32-bit registers are pairs <<hi, lo>> of 16-bit       *)
(* halves, so that shifts lose exactly the bits a uint32_t loses.          *)
(***************************************************************************)
EXTENDS Integers, Sequences, FiniteSets, TLC

VARIABLES ch, ret, clocks, flags, pre, hist, src

vars == <<ch, ret, clocks, flags, pre, hist, src>>

-----------------------------------------------------------------------------
(* Protocol definitions *)

SENT_SLOW_CHANNELS_MAX == 32
SENT_FLAG_HW_OVERFLOW == 1
SENT_MSG_DATA_SIZE == 6
SENT_MSG_PAYLOAD_SIZE == 1 + SENT_MSG_DATA_SIZE + 1
SENT_MSG_TOTAL == 1 + SENT_MSG_PAYLOAD_SIZE
SENT_OFFSET_INTERVAL == 12
SENT_SYNC_INTERVAL == 56 - SENT_OFFSET_INTERVAL
SENT_MIN_INTERVAL == 12
SENT_MAX_INTERVAL == 15
SENT_CRC_SEED == 5
SENT_CALIBRATION_PULSES == 1 + 3 * SENT_MSG_PAYLOAD_SIZE

SENT_STATE_CALIB == 0
SENT_STATE_INIT == 1
SENT_STATE_SYNC == 2
SENT_STATE_STATUS == 3
SENT_STATE_SIG1_DATA1 == 4
SENT_STATE_SIG1_DATA2 == 5
SENT_STATE_SIG1_DATA3 == 6
SENT_STATE_SIG2_DATA1 == 7
SENT_STATE_SIG2_DATA2 == 8
SENT_STATE_SIG2_DATA3 == 9
SENT_STATE_CRC == 10

-----------------------------------------------------------------------------
(* Machine arithmetic *)

Half == 2 ^ 16

\* uint32_t values as <<hi, lo>>, each half in 0..65535
ToU32(n) == <<(n \div Half) % Half, n % Half>>

\* the low 30 bits of a uint32_t, as a number
Low30(p) == (p[1] % 16384) * Half + p[2]

\* (p << k) | low for 1 <= k <= 15 and low < 2^k
ShlOr(p, k, low) ==
    <<(p[1] * (2 ^ k) + p[2] \div (2 ^ (16 - k))) % Half,
      (p[2] * (2 ^ k) + low) % Half>>

\* p * k modulo 2^32, for a small factor k
MulU32(p, k) ==
    <<(p[1] * k + (p[2] * k) \div Half) % Half, (p[2] * k) % Half>>

LeqU32(p, q) == p[1] < q[1] \/ (p[1] = q[1] /\ p[2] <= q[2])

\* uint32_t and uint8_t increments
WrapU32 == 64

IncU32(n) == (n + 1) % WrapU32

RECURSIVE BitXor(_, _)
BitXor(a, b) ==
    IF a = 0 THEN b
    ELSE IF b = 0 THEN a
    ELSE ((a + b) % 2) + 2 * BitXor(a \div 2, b \div 2)

RECURSIVE BitAnd(_, _)
BitAnd(a, b) ==
    IF a = 0 \/ b = 0 THEN 0
    ELSE ((a % 2) * (b % 2)) + 2 * BitAnd(a \div 2, b \div 2)

-----------------------------------------------------------------------------
(* Helpers for Msg manipulations *)

MsgGetNibble(msg, n) ==
    IF n < 4 THEN (msg[1] \div (16 ^ (3 - n))) % 16
    ELSE (msg[2] \div (16 ^ (7 - n))) % 16

MsgGetStat(msg) == MsgGetNibble(msg, 0)

MsgGetSig0(msg) == msg[1] % 4096

MsgGetSig1(msg) == (msg[2] \div 16) % 4096

MsgGetCrc(msg) == MsgGetNibble(msg, 7)

-----------------------------------------------------------------------------
(* CRC *)

CrcLookup == <<0, 13, 7, 10, 14, 3, 9, 4, 1, 12, 6, 11, 15, 2, 8, 5>>

RECURSIVE crc4Loop(_, _, _)
crc4Loop(data, i, crc) ==
    IF i >= 7 THEN crc
    ELSE crc4Loop(data, i + 1, CrcLookup[BitXor(crc, MsgGetNibble(data, i)) + 1])

crc4(data) == crc4Loop(data, 0, SENT_CRC_SEED)

RECURSIVE crc4gmLoop(_, _, _)
crc4gmLoop(data, i, crc) ==
    IF i >= 7 THEN crc
    ELSE crc4gmLoop(data, i + 1,
                    BitAnd(BitXor(CrcLookup[crc + 1], MsgGetNibble(data, i)), 15))

crc4_gm(data) == crc4gmLoop(data, 1, SENT_CRC_SEED)

crc4_gm_v2(data) == CrcLookup[crc4gmLoop(data, 1, SENT_CRC_SEED) + 1]

crc6_table ==
    << 0, 25, 50, 43, 61, 36, 15, 22, 35, 58, 17,  8, 30,  7, 44, 53,
      31,  6, 45, 52, 34, 59, 16,  9, 60, 37, 14, 23,  1, 24, 51, 42,
      62, 39, 12, 21,  3, 26, 49, 40, 29,  4, 47, 54, 32, 57, 18, 11,
      33, 56, 19, 10, 28,  5, 46, 55,  2, 27, 48, 41, 63, 38, 13, 20 >>

RECURSIVE crc6Loop(_, _, _)
crc6Loop(data, i, crc) ==
    IF i >= 4 THEN crc
    ELSE crc6Loop(data, i + 1,
                  BitXor((Low30(data) \div (2 ^ (24 - 6 * (i + 1)))) % 64,
                         crc6_table[crc + 1]))

crc6(data) == crc6_table[crc6Loop(data, 0, 21) + 1]

-----------------------------------------------------------------------------
(* sent_channel: construction *)

StatNames ==
    {"hwOverflowCnt", "ShortIntervalErr", "LongIntervalErr", "SyncErr",
     "CrcErrCnt", "FrameCnt", "PauseCnt", "RestartCnt", "sc12", "sc16",
     "scCrcErr"}

Slots == 1..SENT_SLOW_CHANNELS_MAX

\* The members without an initializer (rxReg, rxLast, the slow channel shift
\* registers, scMsg, statistic) hold whatever the storage holds: zeroes for
\* an object of static storage duration, anything for an automatic one.
ZeroImage ==
    [rxReg |-> <<0, 0>>, rxLast |-> <<0, 0>>,
     scShift2 |-> <<0, 0>>, scShift3 |-> <<0, 0>>, scCrcShift |-> <<0, 0>>,
     scMsg |-> [i \in Slots |-> [data |-> 0, id |-> 0, valid |-> FALSE]],
     statistic |-> [n \in StatNames |-> 0]]

JunkImage ==
    [rxReg |-> <<43981, 4660>>, rxLast |-> <<57005, 48879>>,
     scShift2 |-> <<65535, 65535>>, scShift3 |-> <<43690, 21845>>,
     scCrcShift |-> <<21845, 43690>>,
     scMsg |-> [i \in Slots |-> [data |-> 1000 + i, id |-> 15 + i, valid |-> TRUE]],
     statistic |-> [n \in StatNames |-> 3]]

Images == {ZeroImage, JunkImage}

sent_channel(img) ==
    [state |-> SENT_STATE_CALIB,
     tickPerUnit |-> 0,
     pulseCounter |-> 0,
     currentStatePulseCounter |-> 0,
     pausePulseReceived |-> FALSE,
     rxReg |-> img.rxReg,
     hasValidFast |-> FALSE,
     rxLast |-> img.rxLast,
     scShift2 |-> img.scShift2,
     scShift3 |-> img.scShift3,
     scCrcShift |-> img.scCrcShift,
     scMsg |-> img.scMsg,
     statistic |-> img.statistic]

Count(c, name) == [c EXCEPT !.statistic[name] = IncU32(@)]

-----------------------------------------------------------------------------
(* Slow channel *)

\* the reset without the loop over the mailboxes
SlowChannelDecoderReset_ShiftOnly(c) ==
    [c EXCEPT !.scShift2 = <<0, 0>>, !.scShift3 = <<0, 0>>]

\* the reset clearing the valid flags only
SlowChannelDecoderReset_MailboxOnly(c) ==
    [c EXCEPT !.scMsg = [i \in Slots |-> [c.scMsg[i] EXCEPT !.valid = FALSE]]]

SlowChannelDecoderReset(c) ==
    [c EXCEPT !.scShift2 = <<0, 0>>,
              !.scShift3 = <<0, 0>>,
              !.scMsg = [i \in Slots |-> [c.scMsg[i] EXCEPT !.valid = FALSE]]]

\* first index of the scan among the indexes found, 0 when the scan finds none
FirstSlot(found) ==
    IF found # {} THEN CHOOSE i \in found : \A j \in found : i <= j
    ELSE 0

\* StoreSlowChannelValue taking the first mailbox when none is free
StoreSlowChannelValue_Evicts(c, id, data) ==
    LET hit == FirstSlot({i \in Slots : c.scMsg[i].valid /\ c.scMsg[i].id = id})
        free == FirstSlot({i \in Slots : c.scMsg[i].valid = FALSE})
    IN  IF hit # 0
        THEN [ch |-> [c EXCEPT !.scMsg[hit].data = data], ret |-> 0]
        ELSE IF free # 0
        THEN [ch |-> [c EXCEPT !.scMsg[free] = [data |-> data, id |-> id, valid |-> TRUE]],
              ret |-> 0]
        ELSE [ch |-> [c EXCEPT !.scMsg[1] = [data |-> data, id |-> id, valid |-> TRUE]],
              ret |-> 0]

StoreSlowChannelValue(c, id, data) ==
    LET hit == FirstSlot({i \in Slots : c.scMsg[i].valid /\ c.scMsg[i].id = id})
        free == FirstSlot({i \in Slots : c.scMsg[i].valid = FALSE})
    IN  IF hit # 0
        THEN [ch |-> [c EXCEPT !.scMsg[hit].data = data], ret |-> 0]
        ELSE IF free # 0
        THEN [ch |-> [c EXCEPT !.scMsg[free] = [data |-> data, id |-> id, valid |-> TRUE]],
              ret |-> 0]
        ELSE [ch |-> c, ret |-> -1]

GetSlowChannelValue(c, id) ==
    LET hit == FirstSlot({i \in Slots : c.scMsg[i].valid /\ c.scMsg[i].id = id})
    IN  IF hit # 0 THEN c.scMsg[hit].data ELSE -1

\* SlowChannelDecoder taking the short message data from bits 7..0
SlowChannelDecoder_DataUnshifted(c0) ==
    LET b2 == BitAnd(MsgGetStat(c0.rxLast), 4) \div 4
        b3 == BitAnd(MsgGetStat(c0.rxLast), 8) \div 8
        c == [c0 EXCEPT !.scShift2 = ShlOr(@, 1, b2),
                        !.scShift3 = ShlOr(@, 1, b3),
                        !.scCrcShift = ShlOr(@, 2, 2 * b2 + b3)]
        s2 == Low30(c.scShift2)
        s3 == Low30(c.scShift3)
        sc16Bit == BitAnd(s3, 1024) # 0
        crc == BitAnd(s2 \div 4096, 63)
        counted == Count(c, IF sc16Bit THEN "sc16" ELSE "sc12")
    IN  IF BitAnd(s3, 65535) = 32768
        THEN StoreSlowChannelValue(c, BitAnd(s2 \div 4096, 15), BitAnd(s2, 255))
        ELSE IF BitAnd(s3, 260129) = 258048
        THEN IF crc = crc6(c.scCrcShift)
             THEN IF ~sc16Bit
                  THEN StoreSlowChannelValue(counted,
                           BitAnd(s3 \div 2, 15) + BitAnd(s3 \div 4, 240),
                           BitAnd(s2, 4095))
                  ELSE StoreSlowChannelValue(counted,
                           BitAnd(s3 \div 64, 15),
                           BitAnd(s2, 4095) + BitAnd(s3 \div 2, 15) * 4096)
             ELSE [ch |-> Count(counted, "scCrcErr"), ret |-> 0]
        ELSE [ch |-> c, ret |-> 0]

\* SlowChannelDecoder counting sc12 and sc16 only when the CRC-6 matches
SlowChannelDecoder_CountsStoredOnly(c0) ==
    LET b2 == BitAnd(MsgGetStat(c0.rxLast), 4) \div 4
        b3 == BitAnd(MsgGetStat(c0.rxLast), 8) \div 8
        c == [c0 EXCEPT !.scShift2 = ShlOr(@, 1, b2),
                        !.scShift3 = ShlOr(@, 1, b3),
                        !.scCrcShift = ShlOr(@, 2, 2 * b2 + b3)]
        s2 == Low30(c.scShift2)
        s3 == Low30(c.scShift3)
        sc16Bit == BitAnd(s3, 1024) # 0
        crc == BitAnd(s2 \div 4096, 63)
        counted == Count(c, IF sc16Bit THEN "sc16" ELSE "sc12")
    IN  IF BitAnd(s3, 65535) = 32768
        THEN StoreSlowChannelValue(c, BitAnd(s2 \div 4096, 15), BitAnd(s2 \div 16, 255))
        ELSE IF BitAnd(s3, 260129) = 258048
        THEN IF crc = crc6(c.scCrcShift)
             THEN IF ~sc16Bit
                  THEN StoreSlowChannelValue(counted,
                           BitAnd(s3 \div 2, 15) + BitAnd(s3 \div 4, 240),
                           BitAnd(s2, 4095))
                  ELSE StoreSlowChannelValue(counted,
                           BitAnd(s3 \div 64, 15),
                           BitAnd(s2, 4095) + BitAnd(s3 \div 2, 15) * 4096)
             ELSE [ch |-> Count(c, "scCrcErr"), ret |-> 0]
        ELSE [ch |-> c, ret |-> 0]

SlowChannelDecoder(c0) ==
    LET b2 == BitAnd(MsgGetStat(c0.rxLast), 4) \div 4
        b3 == BitAnd(MsgGetStat(c0.rxLast), 8) \div 8
        c == [c0 EXCEPT !.scShift2 = ShlOr(@, 1, b2),
                        !.scShift3 = ShlOr(@, 1, b3),
                        !.scCrcShift = ShlOr(@, 2, 2 * b2 + b3)]
        s2 == Low30(c.scShift2)
        s3 == Low30(c.scShift3)
        sc16Bit == BitAnd(s3, 1024) # 0
        crc == BitAnd(s2 \div 4096, 63)
        counted == Count(c, IF sc16Bit THEN "sc16" ELSE "sc12")
    IN  IF BitAnd(s3, 65535) = 32768
        THEN StoreSlowChannelValue(c, BitAnd(s2 \div 4096, 15), BitAnd(s2 \div 16, 255))
        ELSE IF BitAnd(s3, 260129) = 258048
        THEN IF crc = crc6(c.scCrcShift)
             THEN IF ~sc16Bit
                  THEN StoreSlowChannelValue(counted,
                           BitAnd(s3 \div 2, 15) + BitAnd(s3 \div 4, 240),
                           BitAnd(s2, 4095))
                  ELSE StoreSlowChannelValue(counted,
                           BitAnd(s3 \div 64, 15),
                           BitAnd(s2, 4095) + BitAnd(s3 \div 2, 15) * 4096)
             ELSE [ch |-> Count(counted, "scCrcErr"), ret |-> 0]
        ELSE [ch |-> c, ret |-> 0]

-----------------------------------------------------------------------------
(* Fast channel *)

\* restart() that also drops the last valid frame
restart_ForgetsFrame(c) ==
    LET r == SlowChannelDecoderReset(
                 [c EXCEPT !.state = SENT_STATE_CALIB,
                           !.pulseCounter = 0,
                           !.currentStatePulseCounter = 0,
                           !.pausePulseReceived = FALSE,
                           !.tickPerUnit = 0,
                           !.hasValidFast = FALSE])
    IN  [r EXCEPT !.statistic =
            [n \in StatNames |->
                IF n = "RestartCnt" THEN IncU32(r.statistic[n])
                ELSE IF n = "hwOverflowCnt" THEN r.statistic[n]
                ELSE 0]]

\* restart() without the slow channel reset
restart_KeepsSlowChannel(c) ==
    [c EXCEPT !.state = SENT_STATE_CALIB,
              !.pulseCounter = 0,
              !.currentStatePulseCounter = 0,
              !.pausePulseReceived = FALSE,
              !.tickPerUnit = 0,
              !.statistic =
                  [n \in StatNames |->
                      IF n = "RestartCnt" THEN IncU32(c.statistic[n])
                      ELSE IF n = "hwOverflowCnt" THEN c.statistic[n]
                      ELSE 0]]

restart(c) ==
    LET r == SlowChannelDecoderReset(
                 [c EXCEPT !.state = SENT_STATE_CALIB,
                           !.pulseCounter = 0,
                           !.currentStatePulseCounter = 0,
                           !.pausePulseReceived = FALSE,
                           !.tickPerUnit = 0])
    IN  [r EXCEPT !.statistic =
            [n \in StatNames |->
                IF n = "RestartCnt" THEN IncU32(r.statistic[n])
                ELSE IF n = "hwOverflowCnt" THEN r.statistic[n]
                ELSE 0]]

\* the tick time without the rounding term
calcTickPerUnit_Truncates(c, clk) ==
    [c EXCEPT !.tickPerUnit = clk \div (SENT_SYNC_INTERVAL + SENT_OFFSET_INTERVAL)]

calcTickPerUnit(c, clk) ==
    [c EXCEPT !.tickPerUnit =
        (clk + (SENT_SYNC_INTERVAL + SENT_OFFSET_INTERVAL) \div 2)
            \div (SENT_SYNC_INTERVAL + SENT_OFFSET_INTERVAL)]

isSyncPulse(c, clk) ==
    LET syncClocks == MulU32(ToU32(c.tickPerUnit), SENT_SYNC_INTERVAL + SENT_OFFSET_INTERVAL)
    IN  /\ LeqU32(MulU32(syncClocks, 80), MulU32(ToU32(clk), 100))
        /\ LeqU32(MulU32(ToU32(clk), 100), MulU32(syncClocks, 120))

\* the interval division of lines 262 and 309 is evaluated with divisor 0:
\* in CALIB it is behind the tickPerUnit == 0 test, in INIT it is not reached
DividesByZero(c) ==
    /\ c.tickPerUnit = 0
    /\ c.state \notin {SENT_STATE_CALIB, SENT_STATE_INIT}

\* (clocks + tickPerUnit / 2) / tickPerUnit - SENT_OFFSET_INTERVAL, as int.
\* The quotient of a division by zero is 0 where the divide instruction gives
\* a result at all; a build that traps does not come back from the call.
Interval(c, clk) ==
    (IF c.tickPerUnit = 0 THEN 0 ELSE (clk + c.tickPerUnit \div 2) \div c.tickPerUnit)
        - SENT_OFFSET_INTERVAL

Out(c, r) == [ch |-> c, ret |-> r]

\* the CALIB case counting pulses as long as a sync as part of the frame
DecodeCalib_CountsSyncs(c0, clk) ==
    LET c == IF c0.tickPerUnit = 0 \/ c0.currentStatePulseCounter = 0
             THEN [calcTickPerUnit(c0, clk) EXCEPT !.currentStatePulseCounter = 1]
             ELSE LET checkInterval == Interval(c0, clk)
                  IN  IF checkInterval >= 0 /\ checkInterval <= SENT_SYNC_INTERVAL
                      THEN IF IncU32(c0.currentStatePulseCounter) = 1 + SENT_MSG_PAYLOAD_SIZE
                           THEN [c0 EXCEPT !.pulseCounter = 0,
                                           !.currentStatePulseCounter = 0,
                                           !.state = SENT_STATE_INIT]
                           ELSE [c0 EXCEPT !.currentStatePulseCounter = IncU32(@)]
                      ELSE calcTickPerUnit([c0 EXCEPT !.currentStatePulseCounter = 1], clk)
    IN  IF c.pulseCounter >= SENT_CALIBRATION_PULSES THEN Out(restart(c), 0) ELSE Out(c, 0)

\* state == SENT_STATE_CALIB: tick time calculation
DecodeCalib(c0, clk) ==
    LET c == IF c0.tickPerUnit = 0 \/ c0.currentStatePulseCounter = 0
             THEN [calcTickPerUnit(c0, clk) EXCEPT !.currentStatePulseCounter = 1]
             ELSE LET checkInterval == Interval(c0, clk)
                  IN  IF checkInterval >= 0 /\ checkInterval <= SENT_MAX_INTERVAL
                      THEN IF IncU32(c0.currentStatePulseCounter) = 1 + SENT_MSG_PAYLOAD_SIZE
                           THEN [c0 EXCEPT !.pulseCounter = 0,
                                           !.currentStatePulseCounter = 0,
                                           !.state = SENT_STATE_INIT]
                           ELSE [c0 EXCEPT !.currentStatePulseCounter = IncU32(@)]
                      ELSE calcTickPerUnit([c0 EXCEPT !.currentStatePulseCounter = 1], clk)
    IN  IF c.pulseCounter >= SENT_CALIBRATION_PULSES THEN Out(restart(c), 0) ELSE Out(c, 0)

\* the INIT case giving up when the count exceeds three frames
DecodeInit_OnePulseMore(c0, clk) ==
    IF isSyncPulse(c0, clk)
    THEN Out([calcTickPerUnit(c0, clk) EXCEPT
                 !.pausePulseReceived = (c0.currentStatePulseCounter = 1),
                 !.currentStatePulseCounter = 0,
                 !.state = SENT_STATE_STATUS], 0)
    ELSE LET c == [c0 EXCEPT !.currentStatePulseCounter = IncU32(@)]
         IN  IF c.currentStatePulseCounter > SENT_MSG_TOTAL * 3
             THEN Out(restart(c), 0)
             ELSE Out(c, 0)

\* state == SENT_STATE_INIT: out of sync, wait for a sync pulse
DecodeInit(c0, clk) ==
    IF isSyncPulse(c0, clk)
    THEN Out([calcTickPerUnit(c0, clk) EXCEPT
                 !.pausePulseReceived = (c0.currentStatePulseCounter = 1),
                 !.currentStatePulseCounter = 0,
                 !.state = SENT_STATE_STATUS], 0)
    ELSE LET c == [c0 EXCEPT !.currentStatePulseCounter = IncU32(@)]
         IN  IF c.currentStatePulseCounter >= SENT_MSG_TOTAL * 3
             THEN Out(restart(c), 0)
             ELSE Out(c, 0)

\* the SYNC case dropping to CALIB, calibration discarded, on a sync error
DecodeSync_Recalibrates(c0, clk, interval) ==
    IF isSyncPulse(c0, clk)
    THEN Out([calcTickPerUnit(c0, clk) EXCEPT !.rxReg = <<0, 0>>,
                                              !.state = SENT_STATE_STATUS], 0)
    ELSE IF c0.pausePulseReceived
    THEN Out([Count(Count(c0, "SyncErr"),
                    IF interval > SENT_SYNC_INTERVAL THEN "LongIntervalErr"
                    ELSE "ShortIntervalErr")
                 EXCEPT !.state = SENT_STATE_CALIB, !.tickPerUnit = 0], -1)
    ELSE Out([Count(c0, "PauseCnt") EXCEPT !.pausePulseReceived = TRUE], 0)

\* the SYNC case telling long from short at the nibble limit
DecodeSync_NibbleLimit(c0, clk, interval) ==
    IF isSyncPulse(c0, clk)
    THEN Out([calcTickPerUnit(c0, clk) EXCEPT !.rxReg = <<0, 0>>,
                                              !.state = SENT_STATE_STATUS], 0)
    ELSE IF c0.pausePulseReceived
    THEN Out([Count(Count(c0, "SyncErr"),
                    IF interval > SENT_MAX_INTERVAL THEN "LongIntervalErr"
                    ELSE "ShortIntervalErr")
                 EXCEPT !.state = SENT_STATE_INIT], -1)
    ELSE Out([Count(c0, "PauseCnt") EXCEPT !.pausePulseReceived = TRUE], 0)

\* case SENT_STATE_SYNC
DecodeSync(c0, clk, interval) ==
    IF isSyncPulse(c0, clk)
    THEN Out([calcTickPerUnit(c0, clk) EXCEPT !.rxReg = <<0, 0>>,
                                              !.state = SENT_STATE_STATUS], 0)
    ELSE IF c0.pausePulseReceived
    THEN Out([Count(Count(c0, "SyncErr"),
                    IF interval > SENT_SYNC_INTERVAL THEN "LongIntervalErr"
                    ELSE "ShortIntervalErr")
                 EXCEPT !.state = SENT_STATE_INIT], -1)
    ELSE Out([Count(c0, "PauseCnt") EXCEPT !.pausePulseReceived = TRUE], 0)

\* the CRC check with the SAE variant alone
CrcOk_SaeOnly(rx) == MsgGetCrc(rx) = crc4(rx)

\* the CRC check of a complete frame
CrcOk(rx) ==
    \/ MsgGetCrc(rx) = crc4(rx)
    \/ MsgGetCrc(rx) = crc4_gm(rx)
    \/ MsgGetCrc(rx) = crc4_gm_v2(rx)

\* the frame is complete: count it, then check its CRC
FrameDone(c0) ==
    LET c == [Count(c0, "FrameCnt") EXCEPT !.pausePulseReceived = FALSE,
                                           !.state = SENT_STATE_SYNC]
    IN  IF CrcOk(c.rxReg)
        THEN Out([c EXCEPT !.rxLast = c.rxReg, !.hasValidFast = TRUE], 1)
        ELSE Out(Count(c, "CrcErrCnt"), -1)

\* the nibble case filling rxReg from the top: newest nibble in [31:28]
DecodeNibble_NewestOnTop(c0, interval) ==
    IF interval > SENT_MAX_INTERVAL
    THEN Out([Count(c0, "LongIntervalErr") EXCEPT !.state = SENT_STATE_INIT], -1)
    ELSE LET c == [c0 EXCEPT !.rxReg = <<interval * 4096 + @[1] \div 16,
                                         (@[1] % 16) * 4096 + @[2] \div 16>>]
         IN  IF c.state # SENT_STATE_CRC
             THEN Out([c EXCEPT !.state = @ + 1], 0)
             ELSE FrameDone(c)

\* case SENT_STATE_STATUS (after the late pause test) ... SENT_STATE_CRC
DecodeNibble(c0, interval) ==
    IF interval > SENT_MAX_INTERVAL
    THEN Out([Count(c0, "LongIntervalErr") EXCEPT !.state = SENT_STATE_INIT], -1)
    ELSE LET c == [c0 EXCEPT !.rxReg = ShlOr(@, 4, interval)]
         IN  IF c.state # SENT_STATE_CRC
             THEN Out([c EXCEPT !.state = @ + 1], 0)
             ELSE FrameDone(c)

FastChannelDecoder(c00, clk) ==
    LET c0 == [c00 EXCEPT !.pulseCounter = IncU32(@)]
    IN  IF c0.state = SENT_STATE_CALIB THEN DecodeCalib(c0, clk)
        ELSE IF c0.state = SENT_STATE_INIT THEN DecodeInit(c0, clk)
        ELSE LET interval == Interval(c0, clk)
             IN  IF interval < 0
                 THEN Out([Count(c0, "ShortIntervalErr") EXCEPT !.state = SENT_STATE_INIT], -1)
                 ELSE IF c0.state = SENT_STATE_SYNC THEN DecodeSync(c0, clk, interval)
                 ELSE IF /\ c0.state = SENT_STATE_STATUS
                         /\ c0.pausePulseReceived = FALSE
                         /\ isSyncPulse(c0, clk)
                 THEN Out(calcTickPerUnit(Count(c0, "PauseCnt"), clk), 0)
                 ELSE DecodeNibble(c0, interval)

DecoderFn(c0, clk, flg) ==
    LET c == IF BitAnd(flg, SENT_FLAG_HW_OVERFLOW) # 0 THEN Count(c0, "hwOverflowCnt") ELSE c0
        fast == FastChannelDecoder(c, clk)
    IN  IF fast.ret > 0 THEN Out(SlowChannelDecoder(fast.ch).ch, fast.ret)
        ELSE IF fast.ret < 0 THEN Out(SlowChannelDecoderReset(fast.ch), fast.ret)
        ELSE fast

GetMsg(c) == [rx |-> c.rxLast, ret |-> IF ~c.hasValidFast THEN -1 ELSE 0]

-----------------------------------------------------------------------------
(* The channel, its caller and what the caller has observed *)

FrameStates == SENT_STATE_STATUS..SENT_STATE_CRC

ScLive(c) ==
    \/ c.scShift2 # <<0, 0>>
    \/ c.scShift3 # <<0, 0>>
    \/ \E i \in Slots : c.scMsg[i].valid

\* no frame has completed since the last accepted status nibble or restart
NoGap == 0 - 1

\* pause pulses of one gap are counted up to this number
MaxGapPauses == 2

\* What one call Decoder(clk, flg) leaves behind.  ret, clocks and flags are
\* the call's result and arguments; pre is what the channel was before the
\* call; hist is what the caller has seen so far (calibPulse: a pulse was
\* handled in CALIB since the creation or the last restart;
\* gapPauses: the pulses counted in PauseCnt since the last complete frame, as
\* long as no status nibble has been accepted since).
Called(s, clk, flg) ==
    LET out == DecoderFn(s.ch, clk, flg)
        restarted == out.ch.statistic.RestartCnt # s.ch.statistic.RestartCnt
    IN  [ch |-> out.ch,
         ret |-> out.ret,
         clocks |-> clk,
         flags |-> flg,
         pre |-> [state |-> s.ch.state,
                  pause |-> s.ch.pausePulseReceived,
                  scLive |-> ScLive(s.ch),
                  restarted |-> restarted],
         hist |-> [plusOnes |-> IF restarted THEN 0
                                ELSE IF out.ret = 1 THEN s.hist.plusOnes + 1
                                ELSE s.hist.plusOnes,
                   everValid |-> s.hist.everValid \/ out.ret = 1,
                   lastGood |-> IF out.ret = 1 THEN out.ch.rxReg ELSE s.hist.lastGood,
                   calibPulse |-> IF restarted THEN FALSE
                                  ELSE s.hist.calibPulse \/ s.ch.state = SENT_STATE_CALIB,
                   gapPauses |-> IF out.ch.statistic.FrameCnt # s.ch.statistic.FrameCnt
                                 THEN 0
                                 ELSE IF \/ s.hist.gapPauses = NoGap
                                         \/ restarted
                                         \/ /\ s.ch.state = SENT_STATE_STATUS
                                            /\ out.ch.state = SENT_STATE_SIG1_DATA1
                                 THEN NoGap
                                 ELSE IF out.ch.statistic.PauseCnt # s.ch.statistic.PauseCnt
                                         /\ s.hist.gapPauses < MaxGapPauses
                                 THEN s.hist.gapPauses + 1
                                 ELSE s.hist.gapPauses]]

\* a channel nobody has called yet
Created(img) ==
    [ch |-> sent_channel(img),
     ret |-> 0,
     clocks |-> 0,
     flags |-> 0,
     pre |-> [state |-> SENT_STATE_CALIB, pause |-> FALSE, scLive |-> FALSE,
              restarted |-> FALSE],
     hist |-> [plusOnes |-> 0, everValid |-> FALSE, lastGood |-> <<0, 0>>,
               calibPulse |-> FALSE, gapPauses |-> NoGap]]

Now == [ch |-> ch, ret |-> ret, clocks |-> clocks, flags |-> flags, pre |-> pre, hist |-> hist]

Becomes(s) ==
    /\ ch' = s.ch
    /\ ret' = s.ret
    /\ clocks' = s.clocks
    /\ flags' = s.flags
    /\ pre' = s.pre
    /\ hist' = s.hist

Is(s) ==
    /\ ch = s.ch
    /\ ret = s.ret
    /\ clocks = s.clocks
    /\ flags = s.flags
    /\ pre = s.pre
    /\ hist = s.hist

Decoder(clk, flg) == Becomes(Called(Now, clk, flg))

-----------------------------------------------------------------------------
(* A transmitter's pulses *)

\* the frame's eight nibbles as the word the decoder should assemble
Packed(nibs) ==
    <<nibs[1] * 4096 + nibs[2] * 256 + nibs[3] * 16 + nibs[4],
      nibs[5] * 4096 + nibs[6] * 256 + nibs[7] * 16 + nibs[8]>>

\* sync, then one pulse per nibble, at T ticks per unit
FramePulses(T, nibs) ==
    <<(SENT_SYNC_INTERVAL + SENT_OFFSET_INTERVAL) * T>>
        \o [i \in 1..Len(nibs) |-> (SENT_OFFSET_INTERVAL + nibs[i]) * T]

Repeat(x, n) == [i \in 1..n |-> x]

\* status nibble st, six data nibbles d, and the CRC nibble of the SAE variant
SaeFrame(st, d) ==
    LET body == <<st>> \o Repeat(d, SENT_MSG_DATA_SIZE)
    IN  body \o <<crc4(Packed(body \o <<0>>))>>

-----------------------------------------------------------------------------
(* Scripted pulses, then arbitrary ones *)

MaxNoise == 4
MaxFlagged == 1

\* at one tick per unit: too short, nibble 5, nibble 12, 28 units (neither a
\* nibble nor a sync), sync, too long
TickSet == {5, 17, 24, 40, 56, 100}

Good(T, st) == FramePulses(T, SaeFrame(st, 5))

Spoiled(T, st) == FramePulses(T, <<st>> \o Repeat(5, SENT_MSG_DATA_SIZE) \o <<12>>)

Scripts ==
    << \* lock, two frames, a pause, a frame with a bad CRC, a frame
       Good(1, 5) \o Good(1, 5) \o Good(1, 12) \o <<17>> \o Spoiled(1, 5) \o Good(1, 12),
       \* lock, a frame, then the line goes out of sync for good
       Good(1, 5) \o Good(1, 12) \o Repeat(17, 30),
       \* lock, then nothing looks like a sync
       Good(1, 5) \o Repeat(24, 28),
       \* no lock at all
       Repeat(100, 26),
       \* two ticks per unit
       Good(2, 5) \o Good(2, 12) \o <<34>> \o Good(2, 5),
       \* lock, then one frame for each CRC variant alone
       Good(1, 5) \o FramePulses(1, Repeat(12, 7) \o <<crc4_gm(Packed(Repeat(12, 8)))>>)
                  \o FramePulses(1, Repeat(12, 7) \o <<crc4_gm_v2(Packed(Repeat(12, 8)))>>)
                  \o FramePulses(1, Repeat(12, 7) \o <<crc4(Packed(Repeat(12, 8)))>>) >>

\* src: which script the transmitter plays, how far it is, and how many
\* arbitrary pulses have followed
Init ==
    /\ \E img \in Images : Is(Created(img))
    /\ \E k \in 1..Len(Scripts) : src = [script |-> k, pos |-> 0, noise |-> 0]

\* the transmitter's next pulse
Send ==
    /\ src.noise = 0
    /\ src.pos < Len(Scripts[src.script])
    /\ Decoder(Scripts[src.script][src.pos + 1], 0)
    /\ src' = [src EXCEPT !.pos = @ + 1]

\* any pulse at all
Pulse ==
    /\ src.noise < MaxNoise
    /\ \E clk \in TickSet :
       \E flg \in (IF src.noise < MaxFlagged THEN {0, 1} ELSE {0}) :
           Decoder(clk, flg)
    /\ src' = [src EXCEPT !.noise = @ + 1]

Next == Send \/ Pulse

Spec == Init /\ [][Next]_vars

\* the same, for a channel in zero-initialised storage
InitStatic ==
    /\ Is(Created(ZeroImage))
    /\ \E k \in 1..Len(Scripts) : src = [script |-> k, pos |-> 0, noise |-> 0]

SpecStatic == InitStatic /\ [][Next]_vars

-----------------------------------------------------------------------------
(* A transmitter calibrating a new channel, then sending one frame *)

\* ticks per unit of the transmitter
UnitTicks == {1, 3, 100}

\* the nibbles it sends
NibbleSet == {0, 6, 15}

ValidCrcs(body) ==
    LET w == Packed(body \o <<0>>) IN {crc4(w), crc4_gm(w), crc4_gm_v2(w)}

\* src: T ticks per unit, frame 0 calibrates and frame 1 is the frame under
\* test, sent holds the nibbles of the current frame sent so far (sync = <<>>
\* not yet sent when synced is FALSE)
InitRoundTrip ==
    /\ \E img \in Images : Is(Created(img))
    /\ \E T \in UnitTicks :
           src = [T |-> T, frame |-> 0, synced |-> FALSE, sent |-> <<>>]

\* what the transmitter may send as nibble number Len(src.sent) + 1
Offered ==
    IF Len(src.sent) = SENT_MSG_PAYLOAD_SIZE - 1 THEN ValidCrcs(src.sent)
    ELSE IF src.frame = 0 THEN {5}
    ELSE NibbleSet

SendSync ==
    /\ ~src.synced
    /\ src.frame <= 1
    /\ Decoder((SENT_SYNC_INTERVAL + SENT_OFFSET_INTERVAL) * src.T, 0)
    /\ src' = [src EXCEPT !.synced = TRUE]

SendNibble ==
    /\ src.synced
    /\ src.frame <= 1
    /\ \E n \in Offered :
          /\ Decoder((SENT_OFFSET_INTERVAL + n) * src.T, 0)
          /\ src' = IF Len(src.sent) = SENT_MSG_PAYLOAD_SIZE - 1 /\ src.frame = 0
                    THEN [src EXCEPT !.frame = 1, !.synced = FALSE, !.sent = <<>>]
                    ELSE IF Len(src.sent) = SENT_MSG_PAYLOAD_SIZE - 1
                    THEN [src EXCEPT !.frame = 2, !.sent = Append(@, n)]
                    ELSE [src EXCEPT !.sent = Append(@, n)]

NextRoundTrip == SendSync \/ SendNibble

SpecRoundTrip == InitRoundTrip /\ [][NextRoundTrip]_vars

-----------------------------------------------------------------------------
(* A scripted past, then well-formed frames without end *)

\* ticks per unit, and the nibble repeated in every frame, of the stream
StreamTicks == {1, 2}
StreamNibbles == {5, 14}

\* src: the script is played up to position cut, then the stream of frames
\* at T ticks per unit follows; at is the position in the current frame and
\* got is set by the first +1 since the stream began
InitStream ==
    /\ \E img \in Images : Is(Created(img))
    /\ \E k \in 1..Len(Scripts) : \E cut \in 0..Len(Scripts[k]) :
       \E T \in StreamTicks : \E n \in StreamNibbles :
           src = [script |-> k, pos |-> 0, noise |-> 0, cut |-> cut,
                  T |-> T, nib |-> n, at |-> 0, got |-> FALSE]

Past ==
    /\ src.pos < src.cut
    /\ Send

Streaming == src.pos = src.cut

StreamPulse ==
    /\ Streaming
    /\ ~src.got
    /\ Decoder(FramePulses(src.T, SaeFrame(src.nib, src.nib))[src.at + 1], 0)
    /\ src' = [src EXCEPT !.at = (@ + 1) % (1 + SENT_MSG_PAYLOAD_SIZE),
                          !.got = (ret' = 1)]

NextStream == Past \/ StreamPulse

\* the transmitter's side of StreamPulse; Decoder accepts every pulse, so
\* within NextStream the steps of Arrives are the steps of StreamPulse
Arrives ==
    /\ Streaming
    /\ ~src.got
    /\ \E g \in BOOLEAN :
           src' = [src EXCEPT !.at = (@ + 1) % (1 + SENT_MSG_PAYLOAD_SIZE), !.got = g]

\* the transmitter never stops: every pulse of the stream arrives
SpecStream == InitStream /\ [][NextStream]_vars /\ WF_src(Arrives)

-----------------------------------------------------------------------------
(* A transmitter sending serial messages in the status nibbles *)

\* bit i of n, bit 0 the least significant
Bit(n, i) == (n \div 2 ^ i) % 2

\* the scCrcShift image of twelve frames: b2 in the odd bits, b3 in the even
RECURSIVE Interleave(_, _, _)
Interleave(b2s, b3s, i) ==
    IF i < 0 THEN 0
    ELSE (2 * Bit(b2s, i) + Bit(b3s, i)) * 4 ^ i + Interleave(b2s, b3s, i - 1)

\* Enhanced Serial Message, 12 bit data and 8 bit id: the 18 bit 3 values
EsmBits3(id) == 258048 + (id \div 16) * 64 + (id % 16) * 2

\* and the 18 bit 2 values: the CRC-6 of the last twelve frames, then the data
EsmBits2(id, data) ==
    LET x == Interleave(data, EsmBits3(id) % 4096, 11)
    IN  crc6(<<x \div Half, x % Half>>) * 4096 + data

\* status nibble of frame j (1..18) of the message
EsmStatus(id, data, j) ==
    8 * Bit(EsmBits3(id), 18 - j) + 4 * Bit(EsmBits2(id, data), 18 - j)

\* Short Serial Message whose bit 2 values spell word: frame j (1..16)
SsmStatus(word, j) == (IF j = 1 THEN 8 ELSE 0) + 4 * Bit(word, 16 - j)

\* the same for the 16 bit data and 4 bit id form (C-flag set)
Esm16Bits3(id, data) == 258048 + 1024 + id * 64 + (data \div 4096) * 2

Esm16Bits2(id, data) ==
    LET x == Interleave(data % 4096, Esm16Bits3(id, data) % 4096, 11)
    IN  crc6(<<x \div Half, x % Half>>) * 4096 + (data % 4096)

Esm16Status(id, data, j) ==
    8 * Bit(Esm16Bits3(id, data), 18 - j) + 4 * Bit(Esm16Bits2(id, data), 18 - j)

SSM_FRAMES == 16
ESM_FRAMES == 18

\* one enhanced message more than the mailbox has entries
FULL_MESSAGES == SENT_SLOW_CHANNELS_MAX + 1

\* what is sent between the calibration frame and the short message: nothing,
\* a few frames, six frames with bit 3 set and one without (the start of an
\* enhanced message), one enhanced message of either form, or enhanced
\* messages with the ids 16..48
Preludes ==
    << <<>>, <<0>>, <<12>>, <<8, 4>>, <<12, 12, 12, 12, 12, 12, 0>>,
       [j \in 1..ESM_FRAMES |-> EsmStatus(200, 2748, j)],
       [j \in 1..ESM_FRAMES |-> Esm16Status(9, 51966, j)] >>
FullPrelude == Len(Preludes) + 1

PreludeLen(k) ==
    IF k = FullPrelude THEN FULL_MESSAGES * ESM_FRAMES ELSE Len(Preludes[k])

PreludeStatus(k, f) ==
    IF k = FullPrelude
    THEN LET m == (f - 1) \div ESM_FRAMES
         IN  EsmStatus(16 + m, 256 + m, ((f - 1) % ESM_FRAMES) + 1)
    ELSE Preludes[k][f]

\* the 16 bit 2 values of the short message
SsmWords == {0, 4660, 42435, 65535}

\* the message frame before which a pause pulse is sent (0: none)
PauseSpots == {0, 1, 9}

\* the low 18 bits of scShift3 show the Enhanced Serial Message pattern
EsmSeen(c) ==
    LET s3 == Low30(c.scShift3)
    IN  /\ (s3 \div 4096) % 64 = 63
        /\ Bit(s3, 11) = 0
        /\ Bit(s3, 5) = 0
        /\ Bit(s3, 0) = 0

Esm16Bit(c) == Bit(Low30(c.scShift3), 10) = 1

EsmCrcMatches(c) == (Low30(c.scShift2) \div 4096) % 64 = crc6(c.scCrcShift)

\* id and data of the message in the shift registers, as section 4.5 gives them
EsmId(c) ==
    LET s3 == Low30(c.scShift3)
    IN  IF Esm16Bit(c) THEN (s3 \div 64) % 16
        ELSE ((s3 \div 2) % 16) + 16 * ((s3 \div 64) % 16)

EsmData(c) ==
    LET s2 == Low30(c.scShift2)
        s3 == Low30(c.scShift3)
    IN  IF Esm16Bit(c) THEN (s2 % 4096) + 4096 * ((s3 \div 2) % 16)
        ELSE s2 % 4096

\* the mailbox can take a value for id
HasRoom(c, id) == \E i \in Slots : ~c.scMsg[i].valid \/ c.scMsg[i].id = id

SsmSeen(c) == Low30(c.scShift3) % Half = 32768

\* the id of the slow-channel message that the frame just accepted has
\* completed, -1 when it has completed none
DecodedId(c) ==
    IF SsmSeen(c) THEN (Low30(c.scShift2) \div 4096) % 16
    ELSE IF EsmSeen(c) /\ EsmCrcMatches(c) THEN EsmId(c)
    ELSE -1

DecodedData(c) ==
    IF SsmSeen(c) THEN (Low30(c.scShift2) \div 16) % 256
    ELSE IF EsmSeen(c) /\ EsmCrcMatches(c) THEN EsmData(c)
    ELSE -1

\* What the caller knows to be in the mailbox: the <<id, data>> of the last
\* message stored for each id since the slow channel was last reset.  A call
\* that returns -1 or restarts resets it; a valid frame that completes a
\* message stores it when the mailbox before the call, c, had room for the id.
Remember(last, r, restarted, c, d) ==
    IF r < 0 \/ restarted THEN {}
    ELSE IF r > 0 /\ DecodedId(d) # -1 /\ HasRoom(c, DecodedId(d))
    THEN {p \in last : p[1] # DecodedId(d)} \cup {<<DecodedId(d), DecodedData(d)>>}
    ELSE last

\* What the caller has seen: the number of +1 returns since the last -1 (16
\* standing for 16 or more) and the status bits 2 and 3 of the last 16 frames
Observe(o, r, c) ==
    IF r > 0
    THEN [good |-> IF o.good < SSM_FRAMES THEN o.good + 1 ELSE o.good,
          seen2 |-> (2 * o.seen2 + BitAnd(MsgGetStat(GetMsg(c).rx), 4) \div 4) % Half,
          seen3 |-> (2 * o.seen3 + BitAnd(MsgGetStat(GetMsg(c).rx), 8) \div 8) % Half]
    ELSE IF r < 0 THEN [good |-> 0, seen2 |-> 0, seen3 |-> 0]
    ELSE o

\* the message frame before which a frame with a bad CRC nibble is sent
\* (0: none)
SpoilSpots == {0, 1}

\* src: the prelude and the message chosen, frame 0 calibrates, at is the
\* position in the current frame, paused is set once the pause pulse is sent
\* and spoiled once the frame with the bad CRC nibble is sent
InitSerial ==
    /\ \E img \in Images : Is(Created(img))
    /\ \E k \in 1..FullPrelude : \E w \in SsmWords : \E p \in PauseSpots :
       \E q \in SpoilSpots :
           src = [prelude |-> k, word |-> w, pauseAt |-> p, spoilAt |-> q,
                  frame |-> 0, at |-> 0, paused |-> FALSE, spoiled |-> FALSE,
                  obs |-> [good |-> 0, seen2 |-> 0, seen3 |-> 0], last |-> {}]

\* status nibble of the current frame
StatusNow ==
    IF src.frame = 0 THEN 5
    ELSE IF src.frame <= PreludeLen(src.prelude) THEN PreludeStatus(src.prelude, src.frame)
    ELSE SsmStatus(src.word, src.frame - PreludeLen(src.prelude))

PauseDue ==
    /\ src.at = 0
    /\ ~src.paused
    /\ src.pauseAt # 0
    /\ src.frame = PreludeLen(src.prelude) + src.pauseAt

SpoilDue ==
    /\ ~src.spoiled
    /\ src.spoilAt # 0
    /\ src.frame = PreludeLen(src.prelude) + src.spoilAt

SendFramePulse ==
    /\ src.frame <= PreludeLen(src.prelude) + SSM_FRAMES
    /\ ~PauseDue
    /\ ~SpoilDue
    /\ Decoder(FramePulses(1, SaeFrame(StatusNow, 5))[src.at + 1], 0)
    /\ src' = [src EXCEPT !.at = IF @ = SENT_MSG_PAYLOAD_SIZE THEN 0 ELSE @ + 1,
                          !.frame = IF src.at = SENT_MSG_PAYLOAD_SIZE THEN @ + 1 ELSE @,
                          !.obs = Observe(@, ret', ch'),
                          !.last = Remember(@, ret', pre'.restarted, ch, ch')]

\* a pause pulse of 30 units
SendPause ==
    /\ PauseDue
    /\ Decoder(30, 0)
    /\ src' = [src EXCEPT !.paused = TRUE, !.obs = Observe(@, ret', ch'),
                          !.last = Remember(@, ret', pre'.restarted, ch, ch')]

\* a pulse of the frame whose CRC nibble matches no variant
SendSpoiledPulse ==
    /\ SpoilDue
    /\ ~PauseDue
    /\ Decoder(Spoiled(1, 0)[src.at + 1], 0)
    /\ src' = [src EXCEPT !.at = IF @ = SENT_MSG_PAYLOAD_SIZE THEN 0 ELSE @ + 1,
                          !.spoiled = (src.at = SENT_MSG_PAYLOAD_SIZE),
                          !.obs = Observe(@, ret', ch'),
                          !.last = Remember(@, ret', pre'.restarted, ch, ch')]

NextSerial == SendFramePulse \/ SendPause \/ SendSpoiledPulse

SpecSerial == InitSerial /\ [][NextSerial]_vars

-----------------------------------------------------------------------------
(* Two channels on the same line, called with different flags *)

\* flags given to a call: none, hardware overflow, another bit, both
FlagSet == {0, 1, 2, 3}

\* calls with the hardware overflow flag that each channel may get
MaxOverflows == 2

Overflowed(flg) == BitAnd(flg, SENT_FLAG_HW_OVERFLOW) # 0

\* src: the script played to both channels and the position in it; twin is
\* the second channel, twinRet and twinFlags its last result and flags; calls
\* and twinCalls count the calls made with the hardware overflow flag
InitTwin ==
    /\ \E img \in Images :
          /\ Is(Created(img))
          /\ \E k \in 1..Len(Scripts) :
                 src = [script |-> k, pos |-> 0, twin |-> sent_channel(img),
                        twinRet |-> 0, twinFlags |-> 0, calls |-> 0, twinCalls |-> 0]

CallBoth ==
    /\ src.pos < Len(Scripts[src.script])
    /\ \E f \in FlagSet, g \in FlagSet :
          /\ Overflowed(f) => src.calls < MaxOverflows
          /\ Overflowed(g) => src.twinCalls < MaxOverflows
          /\ Decoder(Scripts[src.script][src.pos + 1], f)
          /\ LET out == DecoderFn(src.twin, Scripts[src.script][src.pos + 1], g)
             IN  src' = [src EXCEPT !.pos = @ + 1,
                                    !.twin = out.ch,
                                    !.twinRet = out.ret,
                                    !.twinFlags = g,
                                    !.calls = IF Overflowed(f) THEN @ + 1 ELSE @,
                                    !.twinCalls = IF Overflowed(g) THEN @ + 1 ELSE @]

NextTwin == CallBoth

SpecTwin == InitTwin /\ [][NextTwin]_vars

-----------------------------------------------------------------------------
(* A line that carries sync pulses only *)

SyncTicks == {1, 2, 3, 5, 10, 40, 100, 1000}

\* pulses sent at most
MaxSyncs == 26

\* src: the ticks per unit, the number of pulses sent, and the counters the
\* channel was created with
InitSyncs ==
    /\ \E img \in Images :
          /\ Is(Created(img))
          /\ \E T \in SyncTicks : src = [T |-> T, n |-> 0, created |-> img.statistic]

SendSyncOnly ==
    /\ src.n < MaxSyncs
    /\ Decoder((SENT_SYNC_INTERVAL + SENT_OFFSET_INTERVAL) * src.T, 0)
    /\ src' = [src EXCEPT !.n = @ + 1]

NextSyncs == SendSyncOnly

SpecSyncs == InitSyncs /\ [][NextSyncs]_vars

-----------------------------------------------------------------------------
(* A slow line on a fast timer: tick counts near the top of uint32_t *)

\* ticks per unit of the transmitter
WideUnits == {2 ^ 20, 6710887, 2 ^ 25}

\* pulses sent after the calibration frame, at most
MaxWide == 4

\* the pulses on offer at U ticks per unit: glitches, a nibble, the longest
\* nibble, a sync
WidePulses(U) == {0, 5, 27, 12 * U, 27 * U, 56 * U}

\* src: the unit, the pulses sent, and whether a call has divided by zero
\* (trapped: on a build where that stops the program)
InitWide ==
    /\ \E img \in Images : Is(Created(img))
    /\ \E U \in WideUnits :
          src = [U |-> U, sent |-> 0, divByZero |-> FALSE, trapped |-> FALSE]

\* the frame the channel calibrates on: a sync and eight nibble pulses
SendWideFrame ==
    /\ src.sent < 1 + SENT_MSG_PAYLOAD_SIZE
    /\ Decoder(IF src.sent = 0 THEN 56 * src.U ELSE 12 * src.U, 0)
    /\ src' = [src EXCEPT !.sent = @ + 1]

SendWide ==
    /\ src.sent >= 1 + SENT_MSG_PAYLOAD_SIZE
    /\ src.sent < 1 + SENT_MSG_PAYLOAD_SIZE + MaxWide
    /\ ~src.trapped
    /\ ~DividesByZero(ch)
    /\ \E clk \in WidePulses(src.U) : Decoder(clk, 0)
    /\ src' = [src EXCEPT !.sent = @ + 1]

\* a call that divides by zero: the quotient is 0, or the program stops
SendWideDivides ==
    /\ src.sent < 1 + SENT_MSG_PAYLOAD_SIZE + MaxWide
    /\ ~src.trapped
    /\ DividesByZero(ch)
    /\ \/ /\ \E clk \in WidePulses(src.U) : Decoder(clk, 0)
          /\ src' = [src EXCEPT !.sent = @ + 1, !.divByZero = TRUE]
       \/ /\ src' = [src EXCEPT !.divByZero = TRUE, !.trapped = TRUE]
          /\ UNCHANGED <<ch, ret, clocks, flags, pre, hist>>

NextWide == SendWideFrame \/ SendWide \/ SendWideDivides

SpecWide == InitWide /\ [][NextWide]_vars

-----------------------------------------------------------------------------
(* The decoder beside one whose slow channel reset also clears scCrcShift *)

\* Decoder with scCrcShift = 0 added to SlowChannelDecoderReset.  The reset
\* runs last in a call that returns -1, and restart returns from the call
\* right after it, so clearing at the end of such a call is the same.
DecoderClearingCrcShift(c0, clk, flg) ==
    LET out == DecoderFn(c0, clk, flg)
    IN  IF out.ret < 0 \/ out.ch.statistic.RestartCnt # c0.statistic.RestartCnt
        THEN Out([out.ch EXCEPT !.scCrcShift = <<0, 0>>], out.ret)
        ELSE out

\* the second of the two enhanced messages sent: 12 bit or 16 bit form
SecondForms == {12, 16}

\* the frame before which a frame with a bad CRC nibble is sent (0: none)
ResetSpots == 0..(2 * ESM_FRAMES)

\* status nibble of frame f: the calibration frame, the 18 frames of the
\* message id 200 data 2748, then the 18 frames of the second message
StatusOfTwo(form, f) ==
    IF f = 0 THEN 5
    ELSE IF f <= ESM_FRAMES THEN EsmStatus(200, 2748, f)
    ELSE IF form = 12 THEN EsmStatus(77, 1365, f - ESM_FRAMES)
    ELSE Esm16Status(9, 51966, f - ESM_FRAMES)

\* src: twin is the decoder that clears scCrcShift, twinRet its last result;
\* frame and at are the position of the transmitter, resetAt and done tell of
\* the frame with the bad CRC nibble, differed is set once the two decoders
\* have held different scCrcShift values
InitClearing ==
    /\ \E img \in Images :
          /\ Is(Created(img))
          /\ \E form \in SecondForms : \E q \in ResetSpots :
                 src = [twin |-> sent_channel(img), twinRet |-> 0, form |-> form,
                        resetAt |-> q, done |-> FALSE, frame |-> 0, at |-> 0,
                        differed |-> FALSE]

ResetDue == ~src.done /\ src.resetAt # 0 /\ src.frame = src.resetAt

\* the pulse goes to both decoders
BothGet(clk) ==
    /\ Decoder(clk, 0)
    /\ LET out == DecoderClearingCrcShift(src.twin, clk, 0)
       IN  src' = [src EXCEPT
                      !.twin = out.ch,
                      !.twinRet = out.ret,
                      !.at = IF @ = SENT_MSG_PAYLOAD_SIZE THEN 0 ELSE @ + 1,
                      !.frame = IF src.at = SENT_MSG_PAYLOAD_SIZE /\ ~ResetDue
                                THEN @ + 1 ELSE @,
                      !.done = @ \/ (ResetDue /\ src.at = SENT_MSG_PAYLOAD_SIZE),
                      !.differed = @ \/ ch'.scCrcShift # out.ch.scCrcShift]

SendToBoth ==
    /\ src.frame <= 2 * ESM_FRAMES
    /\ ~ResetDue
    /\ BothGet(FramePulses(1, SaeFrame(StatusOfTwo(src.form, src.frame), 5))[src.at + 1])

SendSpoiledToBoth ==
    /\ ResetDue
    /\ BothGet(Spoiled(1, 0)[src.at + 1])

NextClearing == SendToBoth \/ SendSpoiledToBoth

SpecClearing == InitClearing /\ [][NextClearing]_vars

-----------------------------------------------------------------------------
(* What the claims speak of *)

ErrNames == {"ShortIntervalErr", "LongIntervalErr", "SyncErr", "CrcErrCnt"}

MailboxInvalid(c) == \A i \in Slots : ~c.scMsg[i].valid

\* the pulse clk, arriving in state SENT_STATE_CRC, is accepted as a nibble
CrcPulse(c, clk) ==
    /\ c.state = SENT_STATE_CRC
    /\ Interval(c, clk) >= 0
    /\ Interval(c, clk) <= SENT_MAX_INTERVAL

\* the call that took c to d ran restart(): only restart() leaves the
\* channel in CALIB with pulseCounter 0
RestartRan(c, d) == d.state = SENT_STATE_CALIB /\ d.pulseCounter = 0

\* C1: right after a call that returned -1 both slow channel shift registers
\* are 0 and none of the 32 mailbox entries is valid.
C1_ErrorResetsSlowChannel ==
    ret = -1 =>
        /\ ch.scShift2 = <<0, 0>>
        /\ ch.scShift3 = <<0, 0>>
        /\ MailboxInvalid(ch)

\* a CRC mismatch that found the slow channel in use
C1_Witness == ret = -1 /\ pre.state = SENT_STATE_CRC /\ pre.scLive

\* C3: a pulse accepted in the CRC state completes rxReg; the call returns +1
\* exactly when the low nibble equals one of the three CRC-4 variants, and
\* otherwise returns -1, counts one CRC error, goes to SYNC and keeps rxLast
\* and hasValidFast.
C3_CrcDecides ==
    [][CrcPulse(ch, clocks') =>
        LET rx == ch'.rxReg
        IN  /\ rx = ShlOr(ch.rxReg, 4, Interval(ch, clocks'))
            /\ ret' = 1 <=> MsgGetCrc(rx) \in {crc4(rx), crc4_gm(rx), crc4_gm_v2(rx)}
            /\ ret' # 1 =>
                  /\ ret' = -1
                  /\ ch'.statistic.CrcErrCnt = ch.statistic.CrcErrCnt + 1
                  /\ ch'.state = SENT_STATE_SYNC
                  /\ ch'.rxLast = ch.rxLast
                  /\ ch'.hasValidFast = ch.hasValidFast]_vars

\* a CRC mismatch on a channel that holds an earlier valid frame
C3_Witness ==
    /\ pre.state = SENT_STATE_CRC
    /\ ret = -1
    /\ ch.state = SENT_STATE_SYNC
    /\ ch.hasValidFast
    /\ ch.rxLast # ch.rxReg

\* C4: FrameCnt is the number of calls that returned +1 since construction
\* or since the last restart.
C4_FrameCntCountsValidFrames == ch.statistic.FrameCnt = hist.plusOnes

\* C5: GetMsg reports "no data" exactly as long as no call has returned +1;
\* from then on it returns 0 and the word of the latest +1 frame.
C5_GetMsgAfterFirstFrame ==
    /\ GetMsg(ch).ret = -1 <=> ~hist.everValid
    /\ hist.everValid => GetMsg(ch) = [rx |-> hist.lastGood, ret |-> 0]

\* a restart after a valid frame
C5_Witness ==
    /\ hist.everValid
    /\ ch.state = SENT_STATE_CALIB
    /\ pre.restarted
    /\ GetMsg(ch).ret = 0

\* C6: a call outside CALIB that returns -1 for a framing error (not for a
\* CRC mismatch) leaves the channel in INIT with tickPerUnit and RestartCnt
\* as they were.
C6_FramingErrorKeepsCalibration ==
    [][(ret' = -1 /\ ch.state # SENT_STATE_CALIB /\ ~CrcPulse(ch, clocks')) =>
        /\ ch'.state = SENT_STATE_INIT
        /\ ch'.tickPerUnit = ch.tickPerUnit
        /\ ch'.statistic.RestartCnt = ch.statistic.RestartCnt]_vars

\* a sync error at two ticks per unit
C6_Witness ==
    /\ ret = -1
    /\ pre.state = SENT_STATE_SYNC
    /\ ch.state = SENT_STATE_INIT
    /\ ch.tickPerUnit = 2

PauseToken(c, d, r, clk) ==
    IF ~c.pausePulseReceived
    THEN /\ r = 0
         /\ d.state = SENT_STATE_SYNC
         /\ d.pausePulseReceived
         /\ d.statistic.PauseCnt = c.statistic.PauseCnt + 1
         /\ \A n \in ErrNames : d.statistic[n] = c.statistic[n]
    ELSE /\ r = -1
         /\ d.state = SENT_STATE_INIT
         /\ d.statistic.SyncErr = c.statistic.SyncErr + 1
         /\ IF Interval(c, clk) > SENT_SYNC_INTERVAL
            THEN /\ d.statistic.LongIntervalErr = c.statistic.LongIntervalErr + 1
                 /\ d.statistic.ShortIntervalErr = c.statistic.ShortIntervalErr
            ELSE /\ d.statistic.ShortIntervalErr = c.statistic.ShortIntervalErr + 1
                 /\ d.statistic.LongIntervalErr = c.statistic.LongIntervalErr

\* C9 as stated: in SYNC every pulse that is not a sync is tolerated once as
\* a pause (return 0, PauseCnt + 1, no error counted) and is a sync error the
\* second time (return -1, INIT, SyncErr + 1 and one of LongIntervalErr, for
\* an interval above 44, or ShortIntervalErr + 1).
C9_EveryNonSyncTakesPauseToken ==
    [][(ch.state = SENT_STATE_SYNC /\ ~isSyncPulse(ch, clocks')) =>
        PauseToken(ch, ch', ret', clocks')]_vars

\* C9 as amended: the same, for the pulses that are not a sync and are at
\* least 12 units long (interval >= 0).
C9_NonSyncNibbleOrLongerTakesPauseToken ==
    [][(/\ ch.state = SENT_STATE_SYNC
        /\ ~isSyncPulse(ch, clocks')
        /\ Interval(ch, clocks') >= 0) =>
        PauseToken(ch, ch', ret', clocks')]_vars

\* the second non-sync pulse in SYNC, 28 units long: a sync error counted
\* as a short interval
C9_Witness ==
    /\ pre.state = SENT_STATE_SYNC
    /\ pre.pause
    /\ ret = -1
    /\ clocks = 40
    /\ ch.tickPerUnit = 1

\* C2: a new channel calibrated by one well-formed frame at T ticks per unit
\* is in INIT; the sync and the eight nibble pulses of a frame with a valid
\* CRC nibble then return 0 eight times and +1 on the ninth pulse, after
\* which GetMsg returns 0 and the eight nibbles packed most significant first.
C2_FrameRoundTrip ==
    /\ (src.frame = 1 /\ ~src.synced) => ch.state = SENT_STATE_INIT
    /\ (src.frame = 1 /\ src.synced) => (ret = 0 /\ hist.plusOnes = 0)
    /\ src.frame = 2 =>
          /\ ret = 1
          /\ hist.plusOnes = 1
          /\ GetMsg(ch) = [rx |-> Packed(src.sent), ret |-> 0]

\* a frame at 3 ticks per unit whose CRC nibble is not the SAE one
C2_Witness ==
    /\ src.frame = 2
    /\ src.T = 3
    /\ ret = 1
    /\ src.sent[8] # crc4(Packed(src.sent))
    /\ src.sent[1] = 15
    /\ src.sent[7] = 6

\* C8: whatever pulses came before, an endless stream of well-formed frames
\* at a constant tick rate eventually makes Decoder return +1.
C8_StreamRecovers == Streaming ~> src.got

\* the caller has just seen the 16th +1 in a row of a short serial message
SsmDone(o, r) == r = 1 /\ o.good = SSM_FRAMES /\ o.seen3 = 32768

SsmId(o) == (o.seen2 \div 4096) % 16

SsmData(o) == (o.seen2 \div 16) % 256

SsmDelivered(c, o) ==
    /\ \E i \in Slots :
          /\ c.scMsg[i].valid
          /\ c.scMsg[i].id = SsmId(o)
          /\ c.scMsg[i].data = SsmData(o)
    /\ GetSlowChannelValue(c, SsmId(o)) = SsmData(o)

\* C10 as stated: after 16 +1 returns in a row whose status bit 3 values are
\* 1 and fifteen 0s, the mailbox holds a valid entry with the id and the data
\* spelled by the status bit 2 values, and GetSlowChannelValue(id) returns
\* that data.
C10_SsmDelivered == SsmDone(src.obs, ret) => SsmDelivered(ch, src.obs)

\* C10: after 16 +1 returns in a row whose status bit 3 values are 1 and
\* fifteen 0s, the mailbox holds a valid entry with the id and the data
\* spelled by the status bit 2 values and GetSlowChannelValue(id) returns that
\* data, provided the mailbox had an entry that was not valid or a valid entry
\* with that id; otherwise the mailbox is unchanged and GetSlowChannelValue(id)
\* returns -1.
C10_SsmDeliveredIfRoom ==
    [][SsmDone(src'.obs, ret') =>
          IF HasRoom(ch, SsmId(src'.obs))
          THEN SsmDelivered(ch', src'.obs)
          ELSE /\ ch'.scMsg = ch.scMsg
               /\ GetSlowChannelValue(ch', SsmId(src'.obs)) = -1]_vars

\* id 10 and data 92 delivered, with a pause pulse inside the message
C10_Witness ==
    /\ SsmDone(src.obs, ret)
    /\ SsmDelivered(ch, src.obs)
    /\ SsmId(src.obs) = 10
    /\ SsmData(src.obs) = 92
    /\ src.pauseAt = 9
    /\ src.paused

Holds(c, id, data) ==
    \E i \in Slots : c.scMsg[i] = [data |-> data, id |-> id, valid |-> TRUE]

\* the three shift registers of d are those of c after the status bits of
\* the frame d.rxLast were shifted in
Shifted(c, d) ==
    LET b2 == Bit(MsgGetStat(d.rxLast), 2)
        b3 == Bit(MsgGetStat(d.rxLast), 3)
    IN  /\ d.scShift2 = ShlOr(c.scShift2, 1, b2)
        /\ d.scShift3 = ShlOr(c.scShift3, 1, b3)
        /\ d.scCrcShift = ShlOr(c.scCrcShift, 2, 2 * b2 + b3)

\* sc16 or sc12, whichever the C-flag selects, has gone up by one
EsmCounted(c, d) ==
    /\ d.statistic.sc16 = (IF Esm16Bit(d) THEN IncU32(c.statistic.sc16) ELSE c.statistic.sc16)
    /\ d.statistic.sc12 = (IF Esm16Bit(d) THEN c.statistic.sc12 ELSE IncU32(c.statistic.sc12))

EsmRejected(c, d) ==
    /\ d.statistic.scCrcErr = IncU32(c.statistic.scCrcErr)
    /\ d.scMsg = c.scMsg
    /\ Shifted(c, d)

\* C11 as stated: on every valid frame that completes the Enhanced Serial
\* Message pattern exactly one of sc16 and sc12 goes up by one; when the
\* CRC-6 matches a mailbox entry holds the id and data of the 12 bit or the
\* 16 bit form, otherwise scCrcErr goes up by one and the mailbox and the
\* shift registers are as after the shift.
C11_EsmStored ==
    [][(ret' = 1 /\ EsmSeen(ch')) =>
          /\ EsmCounted(ch, ch')
          /\ IF EsmCrcMatches(ch')
             THEN /\ Holds(ch', EsmId(ch'), EsmData(ch'))
                  /\ ch'.statistic.scCrcErr = ch.statistic.scCrcErr
             ELSE EsmRejected(ch, ch')]_vars

\* C11: the same, the entry being stored provided the mailbox had an entry
\* that was not valid or a valid entry with that id; otherwise the mailbox
\* is unchanged.
C11_EsmStoredIfRoom ==
    [][(ret' = 1 /\ EsmSeen(ch')) =>
          /\ EsmCounted(ch, ch')
          /\ IF EsmCrcMatches(ch')
             THEN /\ IF HasRoom(ch, EsmId(ch'))
                     THEN Holds(ch', EsmId(ch'), EsmData(ch'))
                     ELSE ch'.scMsg = ch.scMsg
                  /\ ch'.statistic.scCrcErr = ch.statistic.scCrcErr
                  /\ Shifted(ch, ch')
             ELSE EsmRejected(ch, ch')]_vars

\* a 16 bit message with id 9 and data 51966 has just been stored
C11_Witness ==
    /\ ret = 1
    /\ EsmSeen(ch)
    /\ Esm16Bit(ch)
    /\ EsmCrcMatches(ch)
    /\ Holds(ch, 9, 51966)

\* all mailbox entries are valid and no two hold the same id
Saturated(c) ==
    /\ \A i \in Slots : c.scMsg[i].valid
    /\ \A i, j \in Slots : c.scMsg[i].id = c.scMsg[j].id => i = j

Held(c) == {c.scMsg[i].id : i \in {j \in Slots : c.scMsg[j].valid}}

\* ids and data offered to the store operation
StoreIds == {0, 15, 48, 200, 255}
StoreData == {0, 4095, 65535}

\* C12: with all 32 mailbox entries valid and their ids pairwise distinct,
\* storing an id that none of them holds returns -1 and changes no entry; a
\* valid frame that completes a message with such an id leaves all 32 entries
\* as they were.
C12_FullMailboxRefuses ==
    [][Saturated(ch) =>
          /\ \A id \in StoreIds \ Held(ch) : \A data \in StoreData :
                 StoreSlowChannelValue(ch, id, data) = [ch |-> ch, ret |-> -1]
          /\ (ret' = 1 /\ DecodedId(ch') # -1 /\ DecodedId(ch') \notin Held(ch))
                 => ch'.scMsg = ch.scMsg]_vars

\* the mailbox filled by the enhanced messages 16..47 has just refused id 48
C12_Witness ==
    /\ Saturated(ch)
    /\ \A i \in Slots : ch.scMsg[i].id = 15 + i /\ ch.scMsg[i].data = 255 + i
    /\ ret = 1
    /\ EsmSeen(ch)
    /\ EsmCrcMatches(ch)
    /\ DecodedId(ch) = 48

\* the ids the caller asks for: those of the messages it knows of, those in
\* valid entries, and StoreIds
AskedIds == {p[1] : p \in src.last} \cup Held(ch) \cup StoreIds

\* C13: no two valid mailbox entries hold the same id, and
\* GetSlowChannelValue(id) returns the data of the last message stored for id
\* since the last slow channel reset, -1 when there is none.
C13_MailboxIsLastStored ==
    /\ \A i, j \in Slots :
           (ch.scMsg[i].valid /\ ch.scMsg[j].valid /\ ch.scMsg[i].id = ch.scMsg[j].id)
               => i = j
    /\ \A id \in AskedIds :
           GetSlowChannelValue(ch, id) =
               (IF \E p \in src.last : p[1] = id
                THEN (CHOOSE p \in src.last : p[1] = id)[2]
                ELSE -1)

\* a channel without its hardware overflow counter
SansOverflowCnt(c) == [c EXCEPT !.statistic.hwOverflowCnt = 0]

\* C14: two channels given the same ticks and any flags return the same
\* values and are in the same state but for hwOverflowCnt, which in each is
\* the number of its calls made with the hardware overflow flag, restarts
\* or not.
C14_FlagsCountOnly ==
    /\ ret = src.twinRet
    /\ SansOverflowCnt(ch) = SansOverflowCnt(src.twin)
    /\ ch.statistic.hwOverflowCnt = src.calls
    /\ src.twin.statistic.hwOverflowCnt = src.twinCalls

\* C15 as stated: nine pulses of sync length given to a new channel leave it
\* in INIT or STATUS with RestartCnt and the four error counters 0.
C15_NineSyncsLock ==
    src.n = 9 =>
        /\ ch.state \in {SENT_STATE_INIT, SENT_STATE_STATUS}
        /\ ch.statistic.RestartCnt = 0
        /\ \A e \in ErrNames : ch.statistic[e] = 0

\* C15: nine pulses of sync length given to a new channel leave it in CALIB,
\* each pulse taken as the first of a frame (tickPerUnit = T, one pulse
\* counted in the state, nine in all), and RestartCnt and the four error
\* counters as they were at creation.
C15_NineSyncsStayInCalib ==
    src.n = 9 =>
        /\ ch.state = SENT_STATE_CALIB
        /\ ch.tickPerUnit = src.T
        /\ ch.currentStatePulseCounter = 1
        /\ ch.pulseCounter = 9
        /\ ret = 0
        /\ ch.statistic.RestartCnt = src.created.RestartCnt
        /\ \A e \in ErrNames : ch.statistic[e] = src.created[e]

\* nine pulses of 168 ticks
C15_Witness ==
    /\ src.n = 9
    /\ src.T = 3
    /\ clocks = 168
    /\ ch.state = SENT_STATE_CALIB

\* C20 as stated: no division by zero: tickPerUnit is not 0 in any state
\* other than CALIB, and no Decoder call evaluates the interval division
\* with tickPerUnit 0, for tick values over the range of uint32_t.
C20_NoDivisionByZero ==
    /\ ch.state # SENT_STATE_CALIB => ch.tickPerUnit # 0
    /\ ~src.divByZero

\* C16 as stated: tickPerUnit is 0 if and only if the state is CALIB and no
\* calibration pulse has been handled since the creation or the last restart.
C16_TickZeroIffUncalibrated ==
    ch.tickPerUnit = 0 <=> (ch.state = SENT_STATE_CALIB /\ ~hist.calibPulse)

\* the call Decoder(clk, ..) on channel c takes the pulse for a sync: in INIT,
\* in SYNC, or in STATUS as a late pause pulse
AcceptedAsSync(c, clk) ==
    /\ isSyncPulse(c, clk)
    /\ \/ c.state = SENT_STATE_INIT
       \/ c.state = SENT_STATE_SYNC /\ Interval(c, clk) >= 0
       \/ c.state = SENT_STATE_STATUS /\ Interval(c, clk) >= 0 /\ ~c.pausePulseReceived

\* C17 as stated: outside CALIB a call that accepts its pulse as a sync sets
\* tickPerUnit to (ticks + 28) div 56, and every other call leaves tickPerUnit
\* unchanged.
C17_TickConstantBetweenSyncs ==
    [][ch.state # SENT_STATE_CALIB =>
          IF AcceptedAsSync(ch, clocks')
          THEN ch'.tickPerUnit = (clocks' + 28) \div 56
          ELSE ch'.tickPerUnit = ch.tickPerUnit]_vars

\* C17: outside CALIB a call that accepts its pulse as a sync sets tickPerUnit
\* to (ticks + 28) div 56; a call that does not and runs restart (the 27th
\* pulse in a row without a sync in INIT) sets tickPerUnit to 0 and the state
\* to CALIB; every other call leaves tickPerUnit unchanged.
C17_TickConstantBetweenSyncsAndRestarts ==
    [][ch.state # SENT_STATE_CALIB =>
          IF AcceptedAsSync(ch, clocks')
          THEN ch'.tickPerUnit = (clocks' + 28) \div 56
          ELSE IF RestartRan(ch, ch')
          THEN ch'.tickPerUnit = 0 /\ ch'.state = SENT_STATE_CALIB /\ ch.state = SENT_STATE_INIT
          ELSE ch'.tickPerUnit = ch.tickPerUnit]_vars

\* a pulse of 100 ticks accepted as the sync after a complete frame at two
\* ticks per unit
C17_Witness ==
    /\ pre.state = SENT_STATE_SYNC
    /\ clocks = 100
    /\ ch.state = SENT_STATE_STATUS
    /\ ch.tickPerUnit = 2
    /\ ret = 0

\* What a call in INIT does, restart running on the non-sync pulse that finds
\* already `before` non-sync pulses counted since INIT was entered: the count
\* is 0 whenever INIT is entered, a non-sync pulse that does not restart adds
\* 1 to it, and a sync pulse moves to STATUS without a restart.
ResyncBudget(before) ==
    /\ (ch.state # SENT_STATE_INIT /\ ch'.state = SENT_STATE_INIT)
          => ch'.currentStatePulseCounter = 0
    /\ ch.state = SENT_STATE_INIT =>
          IF isSyncPulse(ch, clocks')
          THEN /\ ch'.state = SENT_STATE_STATUS
               /\ ch'.statistic.RestartCnt = ch.statistic.RestartCnt
          ELSE IF ch.currentStatePulseCounter = before
          THEN /\ RestartRan(ch, ch')
               /\ ch'.statistic.RestartCnt = IncU32(ch.statistic.RestartCnt)
          ELSE /\ ch.currentStatePulseCounter < before
               /\ ch'.state = SENT_STATE_INIT
               /\ ch'.currentStatePulseCounter = ch.currentStatePulseCounter + 1
               /\ ch'.statistic.RestartCnt = ch.statistic.RestartCnt

\* C18 as stated: in INIT restart runs on the 28th pulse in a row that is not
\* a sync (27 counted before it) and on no earlier pulse; a sync before that
\* moves to STATUS without a restart.
C18_RestartOn28thPulse == [][ResyncBudget(3 * SENT_MSG_TOTAL)]_vars

\* C18: in INIT restart runs on the 27th pulse in a row that is not a sync (26
\* counted before it, the count reaching 3 * SENT_MSG_TOTAL) and on no earlier
\* pulse; a sync before that moves to STATUS without a restart.
C18_RestartOn27thPulse == [][ResyncBudget(3 * SENT_MSG_TOTAL - 1)]_vars

\* the calibration frame and then the 27th pulse of 24 ticks: restart has run
C18_Witness ==
    /\ src.script = 3
    /\ src.noise = 0
    /\ src.pos = SENT_MSG_TOTAL + 3 * SENT_MSG_TOTAL
    /\ pre.state = SENT_STATE_INIT
    /\ pre.restarted
    /\ ch.state = SENT_STATE_CALIB

\* C19 as stated: between the completion of a frame and the acceptance of the
\* next status nibble PauseCnt goes up by at most 1.
C19_OnePausePerGap == hist.gapPauses <= 1

\* C21: after every call the decoder and the decoder that also clears
\* scCrcShift in the slow channel reset have returned the same value and hold
\* the same mailbox and the same sc12, sc16 and scCrcErr counters.
C21_CrcShiftResetUnobservable ==
    /\ ret = src.twinRet
    /\ ch.scMsg = src.twin.scMsg
    /\ \A n \in {"sc12", "sc16", "scCrcErr"} : ch.statistic[n] = src.twin.statistic[n]

\* the two decoders have held different scCrcShift values after the frame
\* with the bad CRC nibble, and the last frame of the second message has now
\* been recognised as an enhanced message with a matching CRC and stored
C21_Witness ==
    /\ src.done
    /\ src.differed
    /\ src.resetAt \in 8..ESM_FRAMES
    /\ ret = 1
    /\ EsmSeen(ch)
    /\ EsmCrcMatches(ch)
    /\ \E i \in Slots : /\ ch.scMsg[i].valid
                        /\ ch.scMsg[i].id = EsmId(ch)
                        /\ ch.scMsg[i].data = EsmData(ch)
    /\ ch.scCrcShift = src.twin.scCrcShift

====
